---- MODULE Spec2Model ----
(***************************************************************************)
(* A model of queries.js: the CRUD, query, aggregation and index calls the *)
(* script issues against the "books" collection of "plp_bookstore".        *)
(*                                                                         *)
(* The collection is a sequence of documents in the store's natural order  *)
(* (a new document goes to the end).  A document is a function from field  *)
(* names to values, so an absent field is a name outside its DOMAIN.       *)
(* Prices are in cents (10.99 is 1099); an average price is the exact      *)
(* fraction sum/count in lowest terms.                                     *)
(***************************************************************************)
EXTENDS Integers, Sequences, FiniteSets, TLC

VARIABLES
    books,      \* the documents of the collection, in natural order
    nextId,     \* the next store-assigned _id
    indexes,    \* the indexes of the collection; <<>> while it does not exist
    last,       \* the last call: its name, argument, outcome, and the
                \* collection it was issued against
    prev,       \* the CRUD call, if any, right before the last call
    indexLog    \* the key specifications createIndex was called with, in order

vars == <<books, nextId, indexes, last, prev, indexLog>>

\* At most this many documents are ever inserted (their _ids are 1..MaxInserts).
MaxInserts == 3

\* At most this many createIndex calls are issued.
MaxIndexCalls == 3

IdField == "_id"

\* The value findOne resolves to when no document matches.
Null == [null |-> TRUE]

NoError == "none"

(***************************************************************************)
(* The documents handed to createBook.  The first three are documents of   *)
(* the sample data set; the fourth shares its title with the first; the    *)
(* fifth has no title field.                                               *)
(***************************************************************************)
Book1984 ==
    [title |-> "1984", author |-> "George Orwell", genre |-> "Dystopian",
     published_year |-> 1949, price |-> 1099, in_stock |-> TRUE,
     pages |-> 328, publisher |-> "Secker & Warburg"]

BookAnimalFarm ==
    [title |-> "Animal Farm", author |-> "George Orwell",
     genre |-> "Political Satire", published_year |-> 1945, price |-> 850,
     in_stock |-> FALSE, pages |-> 112, publisher |-> "Secker & Warburg"]

BookBraveNewWorld ==
    [title |-> "Brave New World", author |-> "Aldous Huxley",
     genre |-> "Dystopian", published_year |-> 1932, price |-> 1150,
     in_stock |-> FALSE, pages |-> 311, publisher |-> "Chatto & Windus"]

Book1984Reissue ==
    [title |-> "1984", author |-> "Eric Blair", genre |-> "Dystopian",
     published_year |-> 1950, price |-> 1099, in_stock |-> TRUE,
     pages |-> 336, publisher |-> "Signet"]

BookUntitled ==
    [author |-> "Anonymous", genre |-> "Political Satire",
     published_year |-> 1945, price |-> 999, in_stock |-> TRUE,
     pages |-> 64, publisher |-> "Samizdat"]

SampleBooks ==
    {Book1984, BookAnimalFarm, BookBraveNewWorld, Book1984Reissue, BookUntitled}

\* The titles passed to readBook, updateBookPrice and deleteBook.
TitleArgs == {"1984", "Animal Farm"}

\* The prices passed to updateBookPrice (15.99 is the script's own).
NewPrices == {1599, 1099}

(***************************************************************************)
(* The store's operations, as the script calls them.                       *)
(***************************************************************************)

\* The filter { title }: the document has a title field equal to the value.
MatchesTitle(doc, title) == "title" \in DOMAIN doc /\ doc.title = title

\* The position of the first document matching { title }, 0 when none does.
FirstMatch(coll, title) ==
    IF \E i \in 1..Len(coll) : MatchesTitle(coll[i], title)
    THEN CHOOSE i \in 1..Len(coll) :
            /\ MatchesTitle(coll[i], title)
            /\ \A j \in 1..(i - 1) : ~MatchesTitle(coll[j], title)
    ELSE 0

\* insertOne(bookData): the store adds the _id and appends the document,
\* whatever its fields.
InsertOne(coll, bookData, id) == Append(coll, (IdField :> id) @@ bookData)

\* A findOne whose filter is lost (findOne({})): the first document.
FindOneUnfiltered(coll, title) == IF coll = <<>> THEN Null ELSE coll[1]

\* findOne({ title }): the first matching document, or null.
FindOne(coll, title) ==
    IF FirstMatch(coll, title) = 0 THEN Null ELSE coll[FirstMatch(coll, title)]

\* An update without $set: the matched document is replaced by { price }.
UpdateOneReplacing(coll, title, newPrice) ==
    LET i == FirstMatch(coll, title) IN
    IF i = 0 THEN coll
    ELSE [coll EXCEPT ![i] = (IdField :> coll[i][IdField]) @@
                             ("price" :> newPrice)]

\* updateOne({ title }, { $set: { price: newPrice } }) on the collection.
UpdateOne(coll, title, newPrice) ==
    LET i == FirstMatch(coll, title) IN
    IF i = 0 THEN coll
    ELSE [coll EXCEPT ![i] = ("price" :> newPrice) @@ coll[i]]

\* What updateOne resolves to: modifiedCount is 0 when the $set changes nothing.
UpdateResult(coll, title, newPrice) ==
    LET i == FirstMatch(coll, title) IN
    [matchedCount |-> IF i = 0 THEN 0 ELSE 1,
     modifiedCount |-> IF i # 0 /\ UpdateOne(coll, title, newPrice) # coll
                       THEN 1 ELSE 0]

\* deleteMany in place of deleteOne: every matching document goes.
RECURSIVE DeleteEvery(_, _)
DeleteEvery(coll, title) ==
    IF coll = <<>> THEN <<>>
    ELSE (IF MatchesTitle(Head(coll), title) THEN <<>> ELSE <<Head(coll)>>)
         \o DeleteEvery(Tail(coll), title)

\* deleteOne({ title }) on the collection.
DeleteOne(coll, title) ==
    LET i == FirstMatch(coll, title) IN
    IF i = 0 THEN coll
    ELSE SubSeq(coll, 1, i - 1) \o SubSeq(coll, i + 1, Len(coll))

DeleteResult(coll, title) ==
    [deletedCount |-> Len(coll) - Len(DeleteOne(coll, title))]

\* The index every collection has from its creation.
IdIndex == [v |-> 2, key |-> <<<<IdField, 1>>>>, name |-> "_id_"]

\* A collection comes into existence, with its _id index, on the first
\* insertOne or createIndex.
EnsureCollection(idx) == IF idx = <<>> THEN <<IdIndex>> ELSE idx

\* The name the driver gives an index: field_direction of each field of the
\* key specification, joined by "_".
RECURSIVE IndexName(_)
IndexName(key) ==
    IF Len(key) = 1
    THEN key[1][1] \o "_" \o ToString(key[1][2])
    ELSE key[1][1] \o "_" \o ToString(key[1][2]) \o "_" \o IndexName(Tail(key))

\* createIndex(key) fails when an index of the same name has another key.
CreateIndexError(idx, key) ==
    IF \E i \in 1..Len(idx) : idx[i].name = IndexName(key) /\ idx[i].key # key
    THEN "IndexKeySpecsConflict" ELSE NoError

\* createIndex(key) on the indexes of the collection: nothing changes when an
\* index of that key exists, or when the call fails.
CreateIndex(idx, key) ==
    IF \/ \E i \in 1..Len(idx) : idx[i].key = key
       \/ CreateIndexError(idx, key) # NoError
    THEN EnsureCollection(idx)
    ELSE Append(EnsureCollection(idx),
                [v |-> 2, key |-> key, name |-> IndexName(key)])

\* { title: 1 }
TitleKey == <<<<"title", 1>>>>

\* { genre: 1, published_year: 1 } in place of published_year: -1.
GenreYearKeyAscending == <<<<"genre", 1>>, <<"published_year", 1>>>>

\* { genre: 1, published_year: -1 }
GenreYearKey == <<<<"genre", 1>>, <<"published_year", -1>>>>

(***************************************************************************)
(* The calls.                                                              *)
(***************************************************************************)
CrudOps == {"createBook", "readBook", "updateBookPrice", "deleteBook"}

NoCall == [op |-> "none"]

\* What prev keeps of a call.
Summary(call) ==
    IF call.op \in CrudOps THEN [op |-> call.op, arg |-> call.arg] ELSE NoCall

Call(op, arg, error, result) ==
    [op |-> op, arg |-> arg, error |-> error, result |-> result,
     before |-> books]

Init ==
    /\ books = <<>>
    /\ nextId = 1
    /\ indexes = <<>>
    /\ last = [op |-> "none", arg |-> <<>>, error |-> NoError,
               result |-> <<>>, before |-> <<>>]
    /\ prev = NoCall
    /\ indexLog = <<>>

createBook(bookData) ==
    /\ nextId <= MaxInserts
    /\ books' = InsertOne(books, bookData, nextId)
    /\ nextId' = nextId + 1
    /\ indexes' = EnsureCollection(indexes)
    /\ last' = Call("createBook", bookData, NoError,
                    [acknowledged |-> TRUE, insertedId |-> nextId])
    /\ prev' = Summary(last)
    /\ UNCHANGED indexLog

readBook(title) ==
    /\ last' = Call("readBook", title, NoError, FindOne(books, title))
    /\ prev' = Summary(last)
    /\ UNCHANGED <<books, nextId, indexes, indexLog>>

updateBookPrice(title, newPrice) ==
    /\ books' = UpdateOne(books, title, newPrice)
    /\ last' = Call("updateBookPrice", [title |-> title, newPrice |-> newPrice],
                    NoError, UpdateResult(books, title, newPrice))
    /\ prev' = Summary(last)
    /\ UNCHANGED <<nextId, indexes, indexLog>>

deleteBook(title) ==
    /\ books' = DeleteOne(books, title)
    /\ last' = Call("deleteBook", title, NoError, DeleteResult(books, title))
    /\ prev' = Summary(last)
    /\ UNCHANGED <<nextId, indexes, indexLog>>

NextCrud ==
    \/ \E bookData \in SampleBooks : createBook(bookData)
    \/ \E title \in TitleArgs : readBook(title)
    \/ \E title \in TitleArgs, newPrice \in NewPrices :
          updateBookPrice(title, newPrice)
    \/ \E title \in TitleArgs : deleteBook(title)

SpecCrud == Init /\ [][NextCrud]_vars

(***************************************************************************)
(* Queries: find with a filter, a projection, a sort.                      *)
(***************************************************************************)
\* The arguments passed to the queries (the script's own are Fiction,
\* 1900..1950 and 10).
GenreArgs == {"Dystopian", "Political Satire", "Fiction"}
YearArgs == {<<1900, 1950>>, <<1945, 1949>>, <<1932, 1945>>, <<1950, 1940>>}
PriceArgs == {1000, 1099, 1400}

Range(seq) == {seq[i] : i \in 1..Len(seq)}

\* Every arrangement of a set of documents as a sequence.
Orderings(S) ==
    {f \in [1..Cardinality(S) -> S] :
        \A i, j \in 1..Cardinality(S) : f[i] = f[j] => i = j}

\* find(filter).toArray() with no sort: the matching documents of a
\* collection scan, in natural order.
MatchesGenre(doc, genre) == "genre" \in DOMAIN doc /\ doc.genre = genre

\* The projection { title: 1, author: 1, price: 1, _id: 0 }.
ProjectTitleAuthorPrice(doc) ==
    [f \in DOMAIN doc \cap {"title", "author", "price"} |-> doc[f]]

RECURSIVE FindByGenre(_, _)
FindByGenre(coll, genre) ==
    IF coll = <<>> THEN <<>>
    ELSE (IF MatchesGenre(Head(coll), genre)
          THEN <<ProjectTitleAuthorPrice(Head(coll))>> ELSE <<>>)
         \o FindByGenre(Tail(coll), genre)

\* $gt and $lt in place of $gte and $lte.
MatchesYearsExclusive(doc, startYear, endYear) ==
    /\ "published_year" \in DOMAIN doc
    /\ doc.published_year > startYear
    /\ doc.published_year < endYear

\* The filter { published_year: { $gte: startYear, $lte: endYear } }.
MatchesYears(doc, startYear, endYear) ==
    /\ "published_year" \in DOMAIN doc
    /\ doc.published_year >= startYear
    /\ doc.published_year <= endYear

\* The order sort({ published_year: 1 }) puts two consecutive documents in.
YearOrder(a, b) == a.published_year <= b.published_year

\* find(...).sort({ published_year: 1 }).toArray(): the sort leaves the order
\* of documents of the same year open, so every sorted arrangement of the
\* matching documents is a possible outcome.
FindBetweenYears(coll, startYear, endYear) ==
    {s \in Orderings({d \in Range(coll) : MatchesYears(d, startYear, endYear)}) :
        \A i \in 1..(Len(s) - 1) : YearOrder(s[i], s[i + 1])}

\* $lte in place of $lt.
MatchesAffordableInclusive(doc, maxPrice) ==
    /\ "price" \in DOMAIN doc
    /\ doc.price <= maxPrice
    /\ "in_stock" \in DOMAIN doc
    /\ doc.in_stock = TRUE

\* The filter { price: { $lt: maxPrice }, in_stock: true }.
MatchesAffordableInStock(doc, maxPrice) ==
    /\ "price" \in DOMAIN doc
    /\ doc.price < maxPrice
    /\ "in_stock" \in DOMAIN doc
    /\ doc.in_stock = TRUE

RECURSIVE FindAffordableInStock(_, _)
FindAffordableInStock(coll, maxPrice) ==
    IF coll = <<>> THEN <<>>
    ELSE (IF MatchesAffordableInStock(Head(coll), maxPrice)
          THEN <<Head(coll)>> ELSE <<>>)
         \o FindAffordableInStock(Tail(coll), maxPrice)

findBooksByGenre(genre) ==
    /\ last' = Call("findBooksByGenre", genre, NoError,
                    FindByGenre(books, genre))
    /\ prev' = Summary(last)
    /\ UNCHANGED <<books, nextId, indexes, indexLog>>

findBooksBetweenYears(startYear, endYear) ==
    /\ \E result \in FindBetweenYears(books, startYear, endYear) :
          last' = Call("findBooksBetweenYears",
                       [startYear |-> startYear, endYear |-> endYear],
                       NoError, result)
    /\ prev' = Summary(last)
    /\ UNCHANGED <<books, nextId, indexes, indexLog>>

findAffordableBooksInStock(maxPrice) ==
    /\ last' = Call("findAffordableBooksInStock", maxPrice, NoError,
                    FindAffordableInStock(books, maxPrice))
    /\ prev' = Summary(last)
    /\ UNCHANGED <<books, nextId, indexes, indexLog>>

(***************************************************************************)
(* Aggregation pipelines.                                                  *)
(***************************************************************************)
RECURSIVE GCD(_, _)
GCD(a, b) == IF b = 0 THEN a ELSE GCD(b, a % b)

\* The fraction num/den (den > 0) in lowest terms.
Fraction(num, den) ==
    [num |-> num \div GCD(num, den), den |-> den \div GCD(num, den)]

RECURSIVE SumOfPrices(_)
SumOfPrices(docs) ==
    IF docs = <<>> THEN 0 ELSE Head(docs).price + SumOfPrices(Tail(docs))

RECURSIVE DocsOfGenre(_, _)
DocsOfGenre(coll, genre) ==
    IF coll = <<>> THEN <<>>
    ELSE (IF Head(coll).genre = genre THEN <<Head(coll)>> ELSE <<>>)
         \o DocsOfGenre(Tail(coll), genre)

\* { $avg: '$price' } over the documents of one group.
AvgPrice(docs) == Fraction(SumOfPrices(docs), Len(docs))

\* { $group: { _id: '$genre', averagePrice: { $avg: '$price' } } }: one
\* document per genre that occurs.
GroupAveragePrice(coll) ==
    {(IdField :> g) @@ [averagePrice |-> AvgPrice(DocsOfGenre(coll, g))] :
        g \in {d.genre : d \in Range(coll)}}

\* { $sort: { averagePrice: 1 } } in place of -1.
AveragePriceAscending(a, b) ==
    a.averagePrice.num * b.averagePrice.den
        <= b.averagePrice.num * a.averagePrice.den

\* The order { $sort: { averagePrice: -1 } } puts two consecutive groups in.
AveragePriceOrder(a, b) ==
    a.averagePrice.num * b.averagePrice.den
        >= b.averagePrice.num * a.averagePrice.den

\* The pipeline of getAveragePriceByGenre: its possible results.
AveragePriceByGenre(coll) ==
    {s \in Orderings(GroupAveragePrice(coll)) :
        \A i \in 1..(Len(s) - 1) : AveragePriceOrder(s[i], s[i + 1])}

\* { $mod: [a, b] }: the remainder of the division truncated towards zero.
Mod(a, b) == IF a >= 0 THEN a % b ELSE -((-a) % b)

\* { $subtract: ['$published_year', { $mod: ['$published_year', 10] }] }
Decade(doc) == doc.published_year - Mod(doc.published_year, 10)

\* { $group: { _id: '$decade', count: { $sum: 1 } } } after the $project.
GroupByDecade(coll) ==
    {(IdField :> dec) @@
        [count |-> Cardinality({i \in 1..Len(coll) : Decade(coll[i]) = dec})] :
        dec \in {Decade(d) : d \in Range(coll)}}

\* { $sort: { _id: -1 } } in place of 1.
DecadeDescending(a, b) == a[IdField] >= b[IdField]

\* The order { $sort: { _id: 1 } } puts two consecutive groups in.
DecadeOrder(a, b) == a[IdField] <= b[IdField]

\* The pipeline of getBooksByDecade: its possible results.
BooksByDecade(coll) ==
    {s \in Orderings(GroupByDecade(coll)) :
        \A i \in 1..(Len(s) - 1) : DecadeOrder(s[i], s[i + 1])}

\* The store's order of the genre strings that occur.
GenreRank(genre) ==
    CASE genre = "Dystopian" -> 1
      [] genre = "Fiction" -> 2
      [] genre = "Political Satire" -> 3

\* { $sort: { genre: 1, price: 1 } } in place of price: -1.
GenrePriceAscending(a, b) ==
    \/ GenreRank(a.genre) < GenreRank(b.genre)
    \/ a.genre = b.genre /\ a.price <= b.price

\* The order { $sort: { genre: 1, price: -1 } } puts two consecutive
\* documents in.
GenrePriceOrder(a, b) ==
    \/ GenreRank(a.genre) < GenreRank(b.genre)
    \/ a.genre = b.genre /\ a.price >= b.price

\* The possible outcomes of the $sort stage of getMostExpensiveByGenre.
SortByGenrePrice(coll) ==
    {s \in Orderings(Range(coll)) :
        \A i \in 1..(Len(s) - 1) : GenrePriceOrder(s[i], s[i + 1])}

\* The null a pipeline expression yields for an absent field.
NullValue == "<null>"

\* The value of '$field' in a document: null when the field is absent.
FieldValue(doc, f) == IF f \in DOMAIN doc THEN doc[f] ELSE NullValue

\* The first document of a genre in a sorted sequence.
FirstOfGenre(sorted, genre) ==
    sorted[CHOOSE i \in 1..Len(sorted) :
              /\ sorted[i].genre = genre
              /\ \A j \in 1..(i - 1) : sorted[j].genre # genre]

\* { $group: { _id: '$genre', title: { $first: '$title' }, author: { $first:
\* '$author' }, price: { $first: '$price' } } } over the sorted documents.
GroupFirstByGenre(sorted) ==
    {(IdField :> g) @@
        [title |-> FieldValue(FirstOfGenre(sorted, g), "title"),
         author |-> FieldValue(FirstOfGenre(sorted, g), "author"),
         price |-> FieldValue(FirstOfGenre(sorted, g), "price")] :
        g \in {d.genre : d \in Range(sorted)}}

getAveragePriceByGenre ==
    /\ \E result \in AveragePriceByGenre(books) :
          last' = Call("getAveragePriceByGenre", <<>>, NoError, result)
    /\ prev' = Summary(last)
    /\ UNCHANGED <<books, nextId, indexes, indexLog>>

getBooksByDecade ==
    /\ \E result \in BooksByDecade(books) :
          last' = Call("getBooksByDecade", <<>>, NoError, result)
    /\ prev' = Summary(last)
    /\ UNCHANGED <<books, nextId, indexes, indexLog>>

\* The $group stage emits its groups in no particular order.
getMostExpensiveByGenre ==
    /\ \E sorted \in SortByGenrePrice(books) :
          \E result \in Orderings(GroupFirstByGenre(sorted)) :
             last' = Call("getMostExpensiveByGenre", <<>>, NoError, result)
    /\ prev' = Summary(last)
    /\ UNCHANGED <<books, nextId, indexes, indexLog>>

NextQuery ==
    \/ \E bookData \in SampleBooks : createBook(bookData)
    \/ \E title \in TitleArgs : deleteBook(title)
    \/ \E genre \in GenreArgs : findBooksByGenre(genre)
    \/ \E years \in YearArgs : findBooksBetweenYears(years[1], years[2])
    \/ \E maxPrice \in PriceArgs : findAffordableBooksInStock(maxPrice)
    \/ getAveragePriceByGenre
    \/ getBooksByDecade
    \/ getMostExpensiveByGenre

SpecQuery == Init /\ [][NextQuery]_vars

(***************************************************************************)
(* Index management.                                                       *)
(***************************************************************************)
\* What createIndex(key) resolves to: the name of the index.
CreateIndexResult(idx, key) ==
    IF CreateIndexError(idx, key) = NoError THEN IndexName(key) ELSE <<>>

createTitleIndex ==
    /\ Len(indexLog) < MaxIndexCalls
    /\ indexes' = CreateIndex(indexes, TitleKey)
    /\ last' = Call("createTitleIndex", <<>>,
                    CreateIndexError(indexes, TitleKey),
                    CreateIndexResult(indexes, TitleKey))
    /\ prev' = Summary(last)
    /\ indexLog' = Append(indexLog, TitleKey)
    /\ UNCHANGED <<books, nextId>>

createGenreYearIndex ==
    /\ Len(indexLog) < MaxIndexCalls
    /\ indexes' = CreateIndex(indexes, GenreYearKey)
    /\ last' = Call("createGenreYearIndex", <<>>,
                    CreateIndexError(indexes, GenreYearKey),
                    CreateIndexResult(indexes, GenreYearKey))
    /\ prev' = Summary(last)
    /\ indexLog' = Append(indexLog, GenreYearKey)
    /\ UNCHANGED <<books, nextId>>

\* collection.indexes() fails on a collection that does not exist.
listIndexes ==
    /\ last' = IF indexes = <<>>
               THEN Call("listIndexes", <<>>, "NamespaceNotFound", <<>>)
               ELSE Call("listIndexes", <<>>, NoError, indexes)
    /\ prev' = Summary(last)
    /\ UNCHANGED <<books, nextId, indexes, indexLog>>

NextIndex ==
    \/ \E bookData \in SampleBooks : createBook(bookData)
    \/ createTitleIndex
    \/ createGenreYearIndex
    \/ listIndexes

SpecIndex == Init /\ [][NextIndex]_vars

(***************************************************************************)
(* Helpers of the properties.                                              *)
(***************************************************************************)
\* A document without its store-assigned identifier.
WithoutId(doc) == [f \in DOMAIN doc \ {IdField} |-> doc[f]]

\* How many documents of the collection match { title }.
CountTitle(coll, title) ==
    Cardinality({i \in 1..Len(coll) : MatchesTitle(coll[i], title)})

\* The collection without its i-th document.
RemoveAt(coll, i) == SubSeq(coll, 1, i - 1) \o SubSeq(coll, i + 1, Len(coll))

\* A readBook(title) issued right after createBook(r) with r.title = title.
ReadAfterCreate ==
    /\ last.op = "readBook"
    /\ prev.op = "createBook"
    /\ MatchesTitle(prev.arg, last.arg)

\* A readBook(title) issued right after updateBookPrice(title, v).
ReadAfterUpdate ==
    /\ last.op = "readBook"
    /\ prev.op = "updateBookPrice"
    /\ prev.arg.title = last.arg

(***************************************************************************)
(* C1, as stated: for every record r with a title and every prior content  *)
(* of the collection, createBook(r) followed by readBook(r.title) returns  *)
(* a record equal to r in every field except the identifier.               *)
(***************************************************************************)
C1_ReadReturnsCreated ==
    ReadAfterCreate => WithoutId(last.result) = prev.arg

(***************************************************************************)
(* C1, amended: createBook(r) followed by readBook(r.title) returns a      *)
(* record equal to r in every field except the identifier when no record   *)
(* of the collection had r's title before the call, that is when the       *)
(* collection read holds that title exactly once.                          *)
(***************************************************************************)
C1_ReadReturnsCreatedWhenTitleNew ==
    (ReadAfterCreate /\ CountTitle(last.before, last.arg) = 1)
        => /\ last.error = NoError
           /\ WithoutId(last.result) = prev.arg

\* C1: a read of a newly created title from a collection holding other records.
C1_Witness ==
    /\ ReadAfterCreate
    /\ CountTitle(last.before, last.arg) = 1
    /\ Len(last.before) >= 2
    /\ WithoutId(last.result) = prev.arg

(***************************************************************************)
(* C2, as stated: createBook(record) fails with a ValidationError and      *)
(* inserts nothing whenever the record has no title.                       *)
(***************************************************************************)
C2_UntitledRejected ==
    (last.op = "createBook" /\ "title" \notin DOMAIN last.arg)
        => /\ last.error = "ValidationError"
           /\ books = last.before

(***************************************************************************)
(* C8: when exactly one record has the title, updateBookPrice(title, v)    *)
(* changes the price of that record to v and nothing else (its other       *)
(* fields and every other record are as before), and a readBook(title)     *)
(* that follows returns a record whose price is v.                         *)
(***************************************************************************)
C8_UpdateSetsOnlyPrice ==
    /\ (last.op = "updateBookPrice"
            /\ CountTitle(last.before, last.arg.title) = 1)
        => LET i == FirstMatch(last.before, last.arg.title) IN
           /\ Len(books) = Len(last.before)
           /\ \A j \in 1..Len(books) :
                IF j = i
                THEN /\ DOMAIN books[j] = DOMAIN last.before[j]
                     /\ books[j].price = last.arg.newPrice
                     /\ \A f \in DOMAIN books[j] \ {"price"} :
                            books[j][f] = last.before[j][f]
                ELSE books[j] = last.before[j]
    /\ (ReadAfterUpdate /\ CountTitle(last.before, last.arg) = 1)
        => /\ last.result # Null
           /\ last.result.price = prev.arg.newPrice

\* C8: a read that followed an update of the only record of its title, in
\* a collection holding another record, and returns the price the update set.
C8_Witness ==
    /\ ReadAfterUpdate
    /\ CountTitle(last.before, last.arg) = 1
    /\ Len(last.before) >= 2
    /\ prev.arg.newPrice = 1599
    /\ last.result.price = 1599

(***************************************************************************)
(* C9: deleteBook(title) removes exactly one record when at least one      *)
(* record has the title (also when several do) and none otherwise; the     *)
(* deleted count (0 or 1) is the decrease of the collection's size; a call *)
(* matching nothing is no error and leaves the collection as it was; a     *)
(* record with another title is never removed.                             *)
(***************************************************************************)
C9_DeleteRemovesOneMatch ==
    last.op = "deleteBook" =>
        LET n == CountTitle(last.before, last.arg) IN
        /\ last.error = NoError
        /\ last.result.deletedCount \in {0, 1}
        /\ last.result.deletedCount = Len(last.before) - Len(books)
        /\ n = 0 => (last.result.deletedCount = 0 /\ books = last.before)
        /\ n >= 1 =>
              /\ last.result.deletedCount = 1
              /\ \E i \in 1..Len(last.before) :
                    /\ MatchesTitle(last.before[i], last.arg)
                    /\ books = RemoveAt(last.before, i)

\* C9: a delete from a collection holding the title twice and another record.
C9_Witness ==
    /\ last.op = "deleteBook"
    /\ CountTitle(last.before, last.arg) = 2
    /\ Len(last.before) = 3
    /\ Len(books) = 2

\* C9: a delete that matched nothing in a collection that is not empty.
C9_WitnessNoMatch ==
    /\ last.op = "deleteBook"
    /\ CountTitle(last.before, last.arg) = 0
    /\ Len(last.before) >= 1

\* The values a sequence of group documents has at a field.
FieldOf(groups, f) == {groups[i][f] : i \in 1..Len(groups)}

\* No element occurs twice in the sequence.
NoRepeat(seq) == Len(seq) = Cardinality(Range(seq))

RECURSIVE SumOfCounts(_)
SumOfCounts(groups) ==
    IF groups = <<>> THEN 0 ELSE Head(groups).count + SumOfCounts(Tail(groups))

RECURSIVE TotalPrice(_)
TotalPrice(S) ==
    IF S = {} THEN 0
    ELSE LET d == CHOOSE x \in S : TRUE IN d.price + TotalPrice(S \ {d})

(***************************************************************************)
(* C3: findBooksBetweenYears(startYear, endYear) returns exactly the       *)
(* records with startYear <= published_year <= endYear, each once, in      *)
(* non-decreasing order of published_year.                                 *)
(***************************************************************************)
C3_YearRangeExactAndSorted ==
    last.op = "findBooksBetweenYears" =>
        LET r == last.result IN
        /\ last.error = NoError
        /\ Range(r) = {d \in Range(last.before) :
                          /\ last.arg.startYear <= d.published_year
                          /\ d.published_year <= last.arg.endYear}
        /\ NoRepeat(r)
        /\ \A i, j \in 1..Len(r) :
              i < j => r[i].published_year <= r[j].published_year

\* C3: a result holding a record of the first year and one of the last year
\* of the range, from a collection holding a record outside the range.
C3_Witness ==
    /\ last.op = "findBooksBetweenYears"
    /\ last.arg.startYear < last.arg.endYear
    /\ \E d \in Range(last.result) : d.published_year = last.arg.startYear
    /\ \E d \in Range(last.result) : d.published_year = last.arg.endYear
    /\ Len(last.before) > Len(last.result)

(***************************************************************************)
(* C4: findAffordableBooksInStock(maxPrice) returns exactly the records    *)
(* with price < maxPrice and in_stock = true: none with price = maxPrice,  *)
(* none with in_stock = false whatever its price.                          *)
(***************************************************************************)
C4_AffordableInStockExact ==
    last.op = "findAffordableBooksInStock" =>
        LET r == last.result IN
        /\ last.error = NoError
        /\ Range(r) = {d \in Range(last.before) :
                          d.price < last.arg /\ d.in_stock = TRUE}
        /\ NoRepeat(r)
        /\ \A d \in Range(r) : d.price # last.arg /\ d.in_stock # FALSE

\* C4: a result that is not empty, from a collection holding an in-stock
\* record priced at maxPrice and a cheaper record that is out of stock.
C4_Witness ==
    /\ last.op = "findAffordableBooksInStock"
    /\ last.result # <<>>
    /\ \E d \in Range(last.before) : d.price = last.arg /\ d.in_stock = TRUE
    /\ \E d \in Range(last.before) : d.price < last.arg /\ d.in_stock = FALSE

(***************************************************************************)
(* C5: getBooksByDecade returns one group per distinct decade              *)
(* published_year - (published_year mod 10), in strictly ascending order   *)
(* of decade; a group's count is the number of records of its decade, and  *)
(* the counts add up to the number of records in the collection.           *)
(***************************************************************************)
C5_DecadeGroups ==
    last.op = "getBooksByDecade" =>
        LET r == last.result
            docs == last.before
            decadeOf(d) == d.published_year - (d.published_year % 10)
        IN
        /\ last.error = NoError
        /\ FieldOf(r, IdField) = {decadeOf(d) : d \in Range(docs)}
        /\ \A i, j \in 1..Len(r) : i < j => r[i][IdField] < r[j][IdField]
        /\ \A i \in 1..Len(r) :
              r[i].count = Cardinality({k \in 1..Len(docs) :
                                           decadeOf(docs[k]) = r[i][IdField]})
        /\ SumOfCounts(r) = Len(docs)

\* C5: a result of two or more groups, one of them counting two records.
C5_Witness ==
    /\ last.op = "getBooksByDecade"
    /\ Len(last.result) >= 2
    /\ \E i \in 1..Len(last.result) : last.result[i].count >= 2

C7_MostExpensivePerGenre ==
    last.op = "getMostExpensiveByGenre" =>
        LET r == last.result
            docs == Range(last.before)
        IN
        /\ last.error = NoError
        /\ FieldOf(r, IdField) = {d.genre : d \in docs}
        /\ Len(r) = Cardinality({d.genre : d \in docs})
        /\ \A i \in 1..Len(r) :
              \E d \in docs :
                 /\ d.genre = r[i][IdField]
                 /\ r[i].title = FieldValue(d, "title")
                 /\ r[i].author = d.author
                 /\ r[i].price = d.price
                 /\ \A e \in docs : e.genre = d.genre => e.price <= d.price

\* C7: two genres, one of them with two records of different prices.
C7_Witness ==
    /\ last.op = "getMostExpensiveByGenre"
    /\ Len(last.result) = 2
    /\ \E d, e \in Range(last.before) : d.genre = e.genre /\ d.price < e.price

(***************************************************************************)
(* C10: index creation is idempotent.  After one or more createTitleIndex  *)
(* and createGenreYearIndex calls, in any order, no call has failed, each  *)
(* returned its conventional name (title_1, genre_1_published_year_-1),    *)
(* and listIndexes returns the index _id_ and exactly one entry per        *)
(* specification created, with its key and name, none twice.               *)
(***************************************************************************)
C10_IndexCreationIdempotent ==
    LET titleSpec == <<<<"title", 1>>>>
        genreYearSpec == <<<<"genre", 1>>, <<"published_year", -1>>>>
        entries == {[key |-> x.key, name |-> x.name] : x \in Range(last.result)}
    IN
    /\ Range(indexLog) \subseteq {titleSpec, genreYearSpec}
    /\ last.op = "createTitleIndex"
        => last.error = NoError /\ last.result = "title_1"
    /\ last.op = "createGenreYearIndex"
        => last.error = NoError /\ last.result = "genre_1_published_year_-1"
    /\ (last.op = "listIndexes" /\ indexLog # <<>>)
        => /\ last.error = NoError
           /\ NoRepeat(last.result)
           /\ Len(last.result) = 1 + Cardinality(Range(indexLog))
           /\ [key |-> <<<<"_id", 1>>>>, name |-> "_id_"] \in entries
           /\ titleSpec \in Range(indexLog)
                <=> [key |-> titleSpec, name |-> "title_1"] \in entries
           /\ genreYearSpec \in Range(indexLog)
                <=> [key |-> genreYearSpec,
                     name |-> "genre_1_published_year_-1"] \in entries
           /\ Cardinality(entries) = Len(last.result)

\* C10: a listing of three indexes after three createIndex calls, one of
\* which repeated a specification already created.
C10_Witness ==
    /\ last.op = "listIndexes"
    /\ Len(indexLog) = 3
    /\ Cardinality(Range(indexLog)) = 2
    /\ Len(last.result) = 3

====
